---------------------------- MODULE Spec2Model ----------------------------
(***************************************************************************)
(* A model of src/ast.rs: the lexer, the shunting-yard parser, the         *)
(* recursive evaluator and the main pipeline that joins them.              *)
(*                                                                         *)
(* Characters are one-character strings, a line of text is a sequence of   *)
(* characters.  A stack is a sequence whose top is its last element, as    *)
(* for Vec::push / Vec::pop / Vec::last.  A behaviour is one run of main   *)
(* on one line, from the call of lex on; the build profile decides whether *)
(* i32 overflow panics (overflow checks) or wraps.                         *)
(***************************************************************************)
EXTENDS Integers, Sequences, FiniteSets, TLC

VARIABLES
    overflowChecks,  \* build profile: TRUE = debug (overflow panics), FALSE = release (wraps)
    expr,            \* the line handed to lex (main, after the newline is cut off)
    chars,           \* per lex call: number of characters already consumed from expr
    tokens,          \* per lex call: the Vec<Token> built so far
    lexResult,       \* per lex call: "running", "Ok", "Err" or "Panic"
    lexMsg,          \* per lex call: the offending character of an Err
    pc,              \* where main is: "lex", "parse", "evaluate", "done", "exit", "panic"
    next,            \* parse: index of the next token of the for loop
    output_stack,    \* parse: Vec<AST>
    operator_stack,  \* parse: Vec<Token>
    ast,             \* main: the AST parse returned
    stdout           \* main: what was printed after the prompt

vars == <<overflowChecks, expr, chars, tokens, lexResult, lexMsg, pc, next,
          output_stack, operator_stack, ast, stdout>>

---------------------------------------------------------------------------
(* i32 arithmetic.  Every intermediate value stays inside the i32 range.   *)

I32Max == 2147483647
I32Min == -I32Max - 1
Half   == 256 * 256

Lo16(x) == x % Half
Hi16(x) == (x \div Half) % Half

\* the i32 whose two's complement halves are h and l
FromHalves(h, l) == IF h >= Half \div 2 THEN (h - Half) * Half + l ELSE h * Half + l

WrapAdd(a, b) ==
    LET l == Lo16(a) + Lo16(b)
        h == Hi16(a) + Hi16(b) + (l \div Half)
    IN  FromHalves(h % Half, l % Half)

WrapNeg(a) == IF a = I32Min THEN I32Min ELSE -a

WrapSub(a, b) == WrapAdd(a, WrapNeg(b))

\* x * y modulo 2^16 for 0 <= x, y < 2^16
MulLow16(x, y) ==
    (x * (y % 256) + ((x * (y \div 256)) % 256) * 256) % Half

\* a * b modulo 2^32, from the 16-bit halves of a and b
WrapMul(a, b) ==
    LET al == Lo16(a)
        ah == Hi16(a)
        bl == Lo16(b)
        bh == Hi16(b)
        u  == al * (bl % 256)
        v  == al * (bl \div 256)
        w  == u + (v % 256) * 256
        h  == (w \div Half) + (v \div 256) + MulLow16(ah, bl) + MulLow16(al, bh)
    IN  FromHalves(h % Half, w % Half)

AddOverflows(a, b) == \/ b > 0 /\ a > I32Max - b
                      \/ b < 0 /\ a < I32Min - b

SubOverflows(a, b) == \/ b > 0 /\ a < I32Min + b
                      \/ b < 0 /\ a > I32Max + b

Abs(a) == IF a < 0 THEN -a ELSE a

MulOverflows(a, b) ==
    IF a = 0 \/ b = 0 THEN FALSE
    ELSE IF a = I32Min THEN b # 1
    ELSE IF b = I32Min THEN a # 1
    ELSE LET x == Abs(a)
             y == Abs(b)
         IN  IF (a < 0) = (b < 0)
             THEN x > I32Max \div y
             ELSE /\ x > I32Max \div y
                  /\ ~(y > 1 /\ I32Min % y = 0 /\ -(I32Min \div y) = x)

\* Rust's integer division rounds toward zero; b # 0 and not I32Min / -1
TruncDiv(a, b) ==
    IF b = I32Min THEN (IF a = I32Min THEN 1 ELSE 0)
    ELSE IF a = I32Min
    THEN (IF b > 0 THEN -((-(a + b)) \div b) - 1 ELSE (-(a - b)) \div (-b) + 1)
    ELSE LET q == Abs(a) \div Abs(b)
         IN  IF (a < 0) = (b < 0) THEN q ELSE -q

\* The outcome of an arithmetic step: a value, or a panic of the process.
Val(v)  == [kind |-> "Ok", val |-> v]
Panic   == [kind |-> "Panic"]

\* `a + b`, `a - b`, `a * b` on i32: with overflow checks the operation
\* panics on overflow, without them it wraps.
I32Add(oc, a, b) ==
    IF AddOverflows(a, b) THEN (IF oc THEN Panic ELSE Val(WrapAdd(a, b))) ELSE Val(a + b)
I32Sub(oc, a, b) ==
    IF SubOverflows(a, b) THEN (IF oc THEN Panic ELSE Val(WrapSub(a, b))) ELSE Val(a - b)
I32Mul(oc, a, b) ==
    IF MulOverflows(a, b) THEN (IF oc THEN Panic ELSE Val(WrapMul(a, b))) ELSE Val(a * b)
\* `a / b` panics on a zero divisor and on I32Min / -1 in every build.
I32Div(oc, a, b) ==
    IF b = 0 \/ (a = I32Min /\ b = -1) THEN Panic ELSE Val(TruncDiv(a, b))

---------------------------------------------------------------------------
(* Token and AST.                                                          *)

Number(n)     == [type |-> "Number", value |-> n]
Operator(c)   == [type |-> "Operator", op |-> c]
LeftParen     == [type |-> "LeftParen"]
RightParen    == [type |-> "RightParen"]

ASTNumber(n)        == [node |-> "Number", value |-> n]
BinaryOp(c, l, r)   == [node |-> "BinaryOp", op |-> c, left |-> l, right |-> r]
NoAST               == [node |-> "None"]

Digits    == {"0", "1", "2", "3", "4", "5", "6", "7", "8", "9"}
OpChars   == {"+", "-", "*", "/"}

\* mutant of to_digit: the character's code, as `digit as i32` would give
to_digit_code(c) ==
    CASE c = "0" -> 48 [] c = "1" -> 49 [] c = "2" -> 50 [] c = "3" -> 51 [] c = "4" -> 52
      [] c = "5" -> 53 [] c = "6" -> 54 [] c = "7" -> 55 [] c = "8" -> 56 [] c = "9" -> 57

\* char::to_digit(10) on a digit
to_digit(c) ==
    CASE c = "0" -> 0 [] c = "1" -> 1 [] c = "2" -> 2 [] c = "3" -> 3 [] c = "4" -> 4
      [] c = "5" -> 5 [] c = "6" -> 6 [] c = "7" -> 7 [] c = "8" -> 8 [] c = "9" -> 9

Push(stack, x) == Append(stack, x)
Pop(stack)     == SubSeq(stack, 1, Len(stack) - 1)
Last(stack)    == stack[Len(stack)]

---------------------------------------------------------------------------
(* lex.  Each call of lex owns its locals (chars, tokens); main makes call *)
(* 1, and call 2 is a second call on the same line.                        *)

Runs == {1, 2}

\* chars.peek(): the next character, or "" at the end of the line
Peek(r) == IF chars[r] < Len(expr) THEN expr[chars[r] + 1] ELSE ""

\* The inner while loop of the digit arm, from `consumed` characters on:
\* num = num * 10 + digit for every digit peeked.
RECURSIVE DigitRun(_, _, _, _)
DigitRun(oc, s, consumed, num) ==
    IF consumed < Len(s) /\ s[consumed + 1] \in Digits
    THEN LET m == I32Mul(oc, num, 10)
         IN  IF m.kind = "Panic" THEN Panic
             ELSE LET a == I32Add(oc, m.val, to_digit(s[consumed + 1]))
                  IN  IF a.kind = "Panic" THEN Panic
                      ELSE DigitRun(oc, s, consumed + 1, a.val)
    ELSE [kind |-> "Ok", val |-> num, chars |-> consumed]

\* mutant of NumStart: num kept in a static that the other call has written
NumStart_shared(r) ==
    LET other == tokens[3 - r]
    IN  IF other # <<>> /\ other[Len(other)].type = "Number"
        THEN other[Len(other)].value ELSE 0

\* `let mut num = 0`
NumStart(r) == 0

LexNumber(r) ==
    /\ lexResult[r] = "running"
    /\ Peek(r) \in Digits
    /\ LET run == DigitRun(overflowChecks, expr, chars[r], NumStart(r))
       IN  IF run.kind = "Panic"
           THEN /\ lexResult' = [lexResult EXCEPT ![r] = "Panic"]
                /\ UNCHANGED <<chars, tokens>>
           ELSE /\ tokens' = [tokens EXCEPT ![r] = Push(@, Number(run.val))]
                /\ chars' = [chars EXCEPT ![r] = run.chars]
                /\ UNCHANGED lexResult
    /\ UNCHANGED <<overflowChecks, expr, lexMsg, pc, next, output_stack,
                   operator_stack, ast, stdout>>

\* the token an operator or parenthesis character becomes
TokenOf(ch) ==
    IF ch \in OpChars THEN Operator(ch)
    ELSE IF ch = "(" THEN LeftParen
    ELSE RightParen

LexSymbol(r, symbols) ==
    /\ lexResult[r] = "running"
    /\ Peek(r) \in symbols
    /\ tokens' = [tokens EXCEPT ![r] = Push(@, TokenOf(Peek(r)))]
    /\ chars' = [chars EXCEPT ![r] = @ + 1]
    /\ UNCHANGED <<overflowChecks, expr, lexResult, lexMsg, pc, next, output_stack,
                   operator_stack, ast, stdout>>

LexOperator(r)   == LexSymbol(r, OpChars)
LexLeftParen(r)  == LexSymbol(r, {"("})
LexRightParen(r) == LexSymbol(r, {")"})

LexSpace(r) ==
    /\ lexResult[r] = "running"
    /\ Peek(r) = " "
    /\ chars' = [chars EXCEPT ![r] = @ + 1]
    /\ UNCHANGED <<overflowChecks, expr, tokens, lexResult, lexMsg, pc, next,
                   output_stack, operator_stack, ast, stdout>>

\* the characters lex has an arm for
Known == Digits \cup OpChars \cup {"(", ")", " "}

\* mutant of LexUnknown: an unknown character is skipped like a space
LexUnknown_skip(r) ==
    /\ lexResult[r] = "running"
    /\ Peek(r) # ""
    /\ Peek(r) \notin Known
    /\ chars' = [chars EXCEPT ![r] = @ + 1]
    /\ UNCHANGED <<overflowChecks, expr, tokens, lexResult, lexMsg, pc, next,
                   output_stack, operator_stack, ast, stdout>>

\* `_ => return Err(format!("unknown character: {}", ch))`: the tokens are dropped
LexUnknown(r) ==
    /\ lexResult[r] = "running"
    /\ Peek(r) # ""
    /\ Peek(r) \notin Known
    /\ lexResult' = [lexResult EXCEPT ![r] = "Err"]
    /\ lexMsg' = [lexMsg EXCEPT ![r] = Peek(r)]
    /\ tokens' = [tokens EXCEPT ![r] = <<>>]
    /\ UNCHANGED <<overflowChecks, expr, chars, pc, next, output_stack,
                   operator_stack, ast, stdout>>

\* chars.peek() is None: `Ok(tokens)`
LexEnd(r) ==
    /\ lexResult[r] = "running"
    /\ Peek(r) = ""
    /\ lexResult' = [lexResult EXCEPT ![r] = "Ok"]
    /\ UNCHANGED <<overflowChecks, expr, chars, tokens, lexMsg, pc, next,
                   output_stack, operator_stack, ast, stdout>>

---------------------------------------------------------------------------
(* parse                                                                   *)

\* mutant of precedence: every operator on one level
precedence_flat(op) == IF op \in {"+", "-", "*", "/"} THEN 1 ELSE 0

precedence(op) ==
    IF op \in {"+", "-"} THEN 1
    ELSE IF op \in {"*", "/"} THEN 2
    ELSE 0

\* mutant of FoldsFirst: `>` for `>=`
FoldsFirst_strict(top_op, op) == precedence(top_op) > precedence(op)

\* `precedence(*top_op) >= precedence(*op)`
FoldsFirst(top_op, op) == precedence(top_op) >= precedence(op)

\* mutant of Fold: the first operand popped becomes the left child
Fold_swapped(out, op) ==
    LET first  == out[Len(out)]
        second == out[Len(out) - 1]
    IN  Push(Pop(Pop(out)), BinaryOp(op, first, second))

\* pop right, pop left, push BinaryOp { op, left, right }; needs two entries
Fold(out, op) ==
    LET right == out[Len(out)]
        left  == out[Len(out) - 1]
    IN  Push(Pop(Pop(out)), BinaryOp(op, left, right))

Stacks(out, ops) == [panic |-> FALSE, out |-> out, ops |-> ops]
Unwrapped        == [panic |-> TRUE]

\* the while loop of the Operator arm
RECURSIVE FoldHigher(_, _, _)
FoldHigher(out, ops, op) ==
    IF ops # <<>> /\ Last(ops).type = "Operator" /\ FoldsFirst(Last(ops).op, op)
    THEN IF Len(out) < 2 THEN Unwrapped
         ELSE FoldHigher(Fold(out, Last(ops).op), Pop(ops), op)
    ELSE Stacks(out, ops)

\* the body shared by the RightParen loop and the final loop: two operands are
\* popped for any popped token, a node is pushed only for an Operator
FoldPopped(out, top) ==
    IF top.type = "Operator" THEN Fold(out, top.op) ELSE Pop(Pop(out))

\* mutant of FoldToParen: the LeftParen found is left on the operator stack
RECURSIVE FoldToParen_keepsParen(_, _)
FoldToParen_keepsParen(out, ops) ==
    IF ops = <<>> THEN Stacks(out, ops)
    ELSE IF Last(ops).type = "LeftParen" THEN Stacks(out, ops)
    ELSE IF Len(out) < 2 THEN Unwrapped
    ELSE FoldToParen_keepsParen(FoldPopped(out, Last(ops)), Pop(ops))

\* the while loop of the RightParen arm
RECURSIVE FoldToParen(_, _)
FoldToParen(out, ops) ==
    IF ops = <<>> THEN Stacks(out, ops)
    ELSE IF Last(ops).type = "LeftParen" THEN Stacks(out, Pop(ops))
    ELSE IF Len(out) < 2 THEN Unwrapped
    ELSE FoldToParen(FoldPopped(out, Last(ops)), Pop(ops))

\* the while loop after the for loop
RECURSIVE FoldRest(_, _)
FoldRest(out, ops) ==
    IF ops = <<>> THEN Stacks(out, ops)
    ELSE IF Len(out) < 2 THEN Unwrapped
    ELSE FoldRest(FoldPopped(out, Last(ops)), Pop(ops))

Token == tokens[1][next]

ParseStep(after) ==
    /\ next' = next + 1
    /\ IF after.panic
       THEN /\ pc' = "panic"
            /\ UNCHANGED <<output_stack, operator_stack>>
       ELSE /\ pc' = pc
            /\ output_stack' = after.out
            /\ operator_stack' = after.ops
    /\ UNCHANGED <<overflowChecks, expr, chars, tokens, lexResult, lexMsg, ast, stdout>>

ParseNumber ==
    /\ pc = "parse" /\ next <= Len(tokens[1])
    /\ Token.type = "Number"
    /\ ParseStep(Stacks(Push(output_stack, ASTNumber(Token.value)), operator_stack))

ParseOperator ==
    /\ pc = "parse" /\ next <= Len(tokens[1])
    /\ Token.type = "Operator"
    /\ LET folded == FoldHigher(output_stack, operator_stack, Token.op)
       IN  ParseStep(IF folded.panic THEN folded
                     ELSE Stacks(folded.out, Push(folded.ops, Operator(Token.op))))

ParseLeftParen ==
    /\ pc = "parse" /\ next <= Len(tokens[1])
    /\ Token.type = "LeftParen"
    /\ ParseStep(Stacks(output_stack, Push(operator_stack, LeftParen)))

ParseRightParen ==
    /\ pc = "parse" /\ next <= Len(tokens[1])
    /\ Token.type = "RightParen"
    /\ ParseStep(FoldToParen(output_stack, operator_stack))

\* the final loop and `output_stack.pop().unwrap()`
ParseReturn ==
    /\ pc = "parse" /\ next > Len(tokens[1])
    /\ LET rest == FoldRest(output_stack, operator_stack)
       IN  IF rest.panic \/ rest.out = <<>>
           THEN /\ pc' = "panic"
                /\ UNCHANGED <<output_stack, operator_stack, ast>>
           ELSE /\ pc' = "evaluate"
                /\ ast' = Last(rest.out)
                /\ output_stack' = Pop(rest.out)
                /\ operator_stack' = rest.ops
    /\ UNCHANGED <<overflowChecks, expr, chars, tokens, lexResult, lexMsg, next, stdout>>

---------------------------------------------------------------------------
(* evaluate                                                                *)

Err(msg)  == [kind |-> "Err", msg |-> msg]
Exit(msg) == [kind |-> "Exit", msg |-> msg]

\* `match op { ... }` on the two values
Apply(oc, op, left_val, right_val) ==
    CASE op = "+" -> I32Add(oc, left_val, right_val)
      [] op = "-" -> I32Sub(oc, left_val, right_val)
      [] op = "*" -> I32Mul(oc, left_val, right_val)
      [] op = "/" -> I32Div(oc, left_val, right_val)
      [] OTHER    -> Err("unknown operator")

\* Ok(v), Err(msg), or the process ended inside the call: Exit(msg) after
\* `println!("err> {e}"); exit(1)`, Panic after a panic.
RECURSIVE evaluate(_, _)
evaluate(oc, t) ==
    IF t.node = "Number" THEN Val(t.value)
    ELSE LET l == evaluate(oc, t.left)
         IN  IF l.kind = "Err" THEN Exit(l.msg)
             ELSE IF l.kind # "Ok" THEN l
             ELSE LET r == evaluate(oc, t.right)
                  IN  IF r.kind = "Err" THEN Exit(r.msg)
                      ELSE IF r.kind # "Ok" THEN r
                      ELSE Apply(oc, t.op, l.val, r.val)

---------------------------------------------------------------------------
(* main                                                                    *)

NoOutput     == [kind |-> "none"]
OutLine(v)   == [kind |-> "out", val |-> v]
ErrLine(msg) == [kind |-> "err", msg |-> msg]

\* lex returned Ok: `let ast = parse(&tokens)` starts
MainParse ==
    /\ pc = "lex" /\ lexResult[1] = "Ok"
    /\ pc' = "parse"
    /\ UNCHANGED <<overflowChecks, expr, chars, tokens, lexResult, lexMsg, next,
                   output_stack, operator_stack, ast, stdout>>

\* lex returned Err: `println!("err> {e}"); exit(1)`
MainLexErr ==
    /\ pc = "lex" /\ lexResult[1] = "Err"
    /\ stdout' = ErrLine(<<"unknown character: ", lexMsg[1]>>)
    /\ pc' = "exit"
    /\ UNCHANGED <<overflowChecks, expr, chars, tokens, lexResult, lexMsg, next,
                   output_stack, operator_stack, ast>>

\* lex panicked: the process unwinds out of main
MainLexPanic ==
    /\ pc = "lex" /\ lexResult[1] = "Panic"
    /\ pc' = "panic"
    /\ UNCHANGED <<overflowChecks, expr, chars, tokens, lexResult, lexMsg, next,
                   output_stack, operator_stack, ast, stdout>>

MainEvaluate ==
    /\ pc = "evaluate"
    /\ LET result == evaluate(overflowChecks, ast)
       IN  CASE result.kind = "Ok" ->
                  stdout' = OutLine(result.val) /\ pc' = "done"
             [] result.kind \in {"Err", "Exit"} ->
                  stdout' = ErrLine(<<result.msg>>) /\ pc' = "exit"
             [] OTHER ->
                  stdout' = stdout /\ pc' = "panic"
    /\ UNCHANGED <<overflowChecks, expr, chars, tokens, lexResult, lexMsg, next,
                   output_stack, operator_stack, ast>>

---------------------------------------------------------------------------
(* The lines main can read from standard input.                            *)

MaxLen    == 4     \* longest line of arbitrary characters
MaxOps    == 2     \* most operators in a generated expression
MaxDigits == 10    \* longest generated digit run

Strings(alphabet, n) == UNION {[1..k -> alphabet] : k \in 0..n}

\* every line of at most MaxLen characters over these characters
TextChars  == {"0", "3", "-", "/", "(", ")", " ", "&", "x"}
ShortLines == Strings(TextChars, MaxLen)

\* expressions: every tree of at most MaxOps operators over these literals,
\* written out tightly with the parentheses it needs, or loosely with spaces
\* and with parentheses around every operand that is an operation
Literals == {<<"3">>, <<"6", "5", "5", "3", "6">>}
Styles   == {"tight", "loose"}

RECURSIVE Exprs(_)
Exprs(k) ==
    IF k = 0 THEN {[lit |-> d] : d \in Literals}
    ELSE UNION {{[op |-> o, l |-> a, r |-> b] :
                    o \in OpChars, a \in Exprs(i), b \in Exprs(k - 1 - i)} :
                i \in 0..(k - 1)}

Binds(o) == IF o \in {"*", "/"} THEN 2 ELSE 1

RECURSIVE Unparse(_, _, _, _)
Unparse(t, style, outer, onRight) ==
    IF "lit" \in DOMAIN t THEN t.lit
    ELSE LET gap   == IF style = "loose" THEN <<" ">> ELSE <<>>
             inner == Unparse(t.l, style, Binds(t.op), FALSE) \o gap \o <<t.op>>
                      \o gap \o Unparse(t.r, style, Binds(t.op), TRUE)
             paren == IF style = "loose" THEN outer > 0
                      ELSE Binds(t.op) < outer \/ (Binds(t.op) = outer /\ onRight)
         IN  IF paren THEN <<"(">> \o inner \o <<")">> ELSE inner

ExprLines ==
    {Unparse(t, st, 0, FALSE) : t \in UNION {Exprs(k) : k \in 0..MaxOps}, st \in Styles}

\* digit runs up to and beyond the i32 range, alone and before an unknown character
RunChars == {"0", "9"}

\* decimal notation, independent of the lexer
Numeral  == <<"0", "1", "2", "3", "4", "5", "6", "7", "8", "9">>
Worth(c) == (CHOOSE i \in 1..Len(Numeral) : Numeral[i] = c) - 1

RECURSIVE Decimal(_)
Decimal(n) ==
    IF n < Len(Numeral) THEN <<Numeral[n + 1]>>
    ELSE Append(Decimal(n \div Len(Numeral)), Numeral[(n % Len(Numeral)) + 1])

Numerals ==
    (Strings(RunChars, MaxDigits) \ {<<>>})
        \cup {Append(Decimal(I32Max \div Len(Numeral)), d) : d \in Digits}

LongLines == {n \o tail : n \in Numerals, tail \in {<<>>, <<"&">>}}

Lines == ShortLines \cup ExprLines \cup LongLines

---------------------------------------------------------------------------
(* The pipeline: one run of main on one line.                              *)

Init ==
    /\ overflowChecks \in BOOLEAN
    /\ expr \in Lines
    /\ chars = [r \in Runs |-> 0]
    /\ tokens = [r \in Runs |-> <<>>]
    /\ lexResult = [r \in Runs |-> IF r = 1 THEN "running" ELSE "idle"]
    /\ lexMsg = [r \in Runs |-> ""]
    /\ pc = "lex"
    /\ next = 1
    /\ output_stack = <<>>
    /\ operator_stack = <<>>
    /\ ast = NoAST
    /\ stdout = NoOutput

Next ==
    \/ LexNumber(1) \/ LexOperator(1) \/ LexLeftParen(1) \/ LexRightParen(1)
    \/ LexSpace(1) \/ LexUnknown(1) \/ LexEnd(1)
    \/ MainParse \/ MainLexErr \/ MainLexPanic
    \/ ParseNumber \/ ParseOperator \/ ParseLeftParen \/ ParseRightParen
    \/ ParseReturn
    \/ MainEvaluate

Spec == Init /\ [][Next]_vars

\* Two calls of lex on one line, their steps interleaved in every order.
RelexLines == Strings(TextChars, MaxLen - 1) \cup LongLines

InitRelex ==
    /\ overflowChecks \in BOOLEAN
    /\ expr \in RelexLines
    /\ chars = [r \in Runs |-> 0]
    /\ tokens = [r \in Runs |-> <<>>]
    /\ lexResult = [r \in Runs |-> "running"]
    /\ lexMsg = [r \in Runs |-> ""]
    /\ pc = "lex"
    /\ next = 1
    /\ output_stack = <<>>
    /\ operator_stack = <<>>
    /\ ast = NoAST
    /\ stdout = NoOutput

NextRelex ==
    \E r \in Runs :
        \/ LexNumber(r) \/ LexOperator(r) \/ LexLeftParen(r) \/ LexRightParen(r)
        \/ LexSpace(r) \/ LexUnknown(r) \/ LexEnd(r)

SpecRelex == InitRelex /\ [][NextRelex]_vars

---------------------------------------------------------------------------
(* Conventional reading of a line, independent of the parser: an           *)
(* expression is split at its last operator of the lowest precedence that  *)
(* stands outside all parentheses; a parenthesised expression reads as its *)
(* inside; a digit run reads as a literal.                                 *)

Bad == [node |-> "Bad"]

RECURSIVE Trim(_)
Trim(s) ==
    IF s = <<>> THEN s
    ELSE IF Head(s) = " " THEN Trim(Tail(s))
    ELSE IF s[Len(s)] = " " THEN Trim(SubSeq(s, 1, Len(s) - 1))
    ELSE s

Count(s, c, upto) == Cardinality({j \in 1..upto : s[j] = c})

\* positions of the operators in ops that stand outside all parentheses
Outer(s, ops) ==
    {i \in 1..Len(s) : s[i] \in ops /\ Count(s, "(", i) = Count(s, ")", i)}

Max(S) == CHOOSE m \in S : \A n \in S : n <= m

RECURSIVE Reading(_)
Reading(line) ==
    LET s    == Trim(line)
        low  == Outer(s, {"+", "-"})
        high == Outer(s, {"*", "/"})
        at   == IF low # {} THEN Max(low) ELSE Max(high)
    IN  IF s = <<>> THEN Bad
        ELSE IF low # {} \/ high # {}
        THEN LET l == Reading(SubSeq(s, 1, at - 1))
                 r == Reading(SubSeq(s, at + 1, Len(s)))
             IN  IF l = Bad \/ r = Bad THEN Bad
                 ELSE [node |-> "BinaryOp", op |-> s[at], left |-> l, right |-> r]
        ELSE IF Head(s) = "(" /\ s[Len(s)] = ")"
        THEN Reading(SubSeq(s, 2, Len(s) - 1))
        ELSE IF \A i \in 1..Len(s) : s[i] \in Digits
        THEN [node |-> "Literal", digits |-> s]
        ELSE Bad

WellFormed(line) == Reading(line) # Bad

\* the value of a digit run, or -1 when it is above I32Max
RECURSIVE LiteralValue(_)
LiteralValue(ds) ==
    IF ds = <<>> THEN 0
    ELSE LET d    == Worth(ds[Len(ds)])
             base == Len(Numeral)
             high == LiteralValue(SubSeq(ds, 1, Len(ds) - 1))
         IN  IF high < 0 \/ high > (I32Max - d) \div base THEN -1 ELSE high * base + d

Undefined == [defined |-> FALSE]
Defined(v) == [defined |-> TRUE, val |-> v]

\* the value of a reading in integer arithmetic, division rounding toward
\* zero; Undefined when a divisor is zero or a value leaves the i32 range
RECURSIVE Value(_)
Value(t) ==
    IF t.node = "Literal"
    THEN (IF LiteralValue(t.digits) < 0 THEN Undefined ELSE Defined(LiteralValue(t.digits)))
    ELSE LET l == Value(t.left)
             r == Value(t.right)
         IN  IF ~l.defined \/ ~r.defined THEN Undefined
             ELSE CASE t.op = "+" ->
                        IF AddOverflows(l.val, r.val) THEN Undefined ELSE Defined(l.val + r.val)
                    [] t.op = "-" ->
                        IF SubOverflows(l.val, r.val) THEN Undefined ELSE Defined(l.val - r.val)
                    [] t.op = "*" ->
                        IF MulOverflows(l.val, r.val) THEN Undefined ELSE Defined(l.val * r.val)
                    [] t.op = "/" ->
                        IF r.val = 0 \/ (l.val = I32Min /\ r.val = -1) THEN Undefined
                        ELSE Defined(TruncDiv(l.val, r.val))

Terminal == {"done", "exit", "panic"}

\* parse has returned or failed
Parsed == pc \in {"evaluate", "done", "exit", "panic"} /\ lexResult[1] = "Ok"

ParseErrorReported == pc = "exit" /\ stdout.kind = "err" /\ ast = NoAST

Min(S) == CHOOSE m \in S : \A n \in S : m <= n

\* the AST a reading stands for
RECURSIVE TreeOf(_)
TreeOf(t) ==
    IF t.node = "Literal" THEN ASTNumber(LiteralValue(t.digits))
    ELSE BinaryOp(t.op, TreeOf(t.left), TreeOf(t.right))

RECURSIVE Internal(_)
Internal(t) == IF t.node = "Number" THEN 0 ELSE 1 + Internal(t.left) + Internal(t.right)

RECURSIVE Leaves(_)
Leaves(t) == IF t.node = "Number" THEN 1 ELSE Leaves(t.left) + Leaves(t.right)

\* the tokens of a tree, left to right
RECURSIVE InOrder(_)
InOrder(t) ==
    IF t.node = "Number" THEN <<Number(t.value)>>
    ELSE InOrder(t.left) \o <<Operator(t.op)>> \o InOrder(t.right)

IsOperator(tok) == tok.type = "Operator"
IsParen(tok)    == tok.type \in {"LeftParen", "RightParen"}
NotParen(tok)   == ~IsParen(tok)

---------------------------------------------------------------------------
(* C1 *)

\* C1: for a well-formed line whose conventional value is defined (no zero
\* divisor, every literal and intermediate value inside i32), the pipeline
\* ends by printing that value: * and / bind tighter than + and -, and a
\* parenthesised group is evaluated as a unit.
C1_ConventionalValue ==
    (pc \in Terminal /\ WellFormed(expr) /\ Value(Reading(expr)).defined)
        => pc = "done" /\ stdout = OutLine(Value(Reading(expr)).val)

\* a product or quotient whose left operand is a parenthesised sum or
\* difference has been evaluated and printed
C1_Witness ==
    /\ pc = "done"
    /\ WellFormed(expr) /\ Value(Reading(expr)).defined
    /\ ast.node = "BinaryOp" /\ ast.op \in {"*", "/"}
    /\ ast.left.node = "BinaryOp" /\ ast.left.op \in {"+", "-"}

---------------------------------------------------------------------------
(* C2 *)

\* the tokens are `a op1 b op2 c` with op1 and op2 on one precedence level
SameLevelChain(toks) ==
    /\ Len(toks) = 5
    /\ toks[1].type = "Number" /\ toks[3].type = "Number" /\ toks[5].type = "Number"
    /\ toks[2].type = "Operator" /\ toks[4].type = "Operator"
    /\ (toks[2].op \in {"+", "-"}) = (toks[4].op \in {"+", "-"})

\* C2: operators of equal precedence group left to right: parse of
\* `a op1 b op2 c` returns BinaryOp(op2, BinaryOp(op1, a, b), c).
C2_LeftAssociative ==
    (Parsed /\ SameLevelChain(tokens[1]))
        => ast = BinaryOp(tokens[1][4].op,
                          BinaryOp(tokens[1][2].op,
                                   ASTNumber(tokens[1][1].value),
                                   ASTNumber(tokens[1][3].value)),
                          ASTNumber(tokens[1][5].value))

\* a chain of two subtractions over different operands was parsed and printed
C2_Witness ==
    /\ pc = "done"
    /\ SameLevelChain(tokens[1])
    /\ tokens[1][2].op = "-" /\ tokens[1][4].op = "-"
    /\ tokens[1][1].value # tokens[1][3].value
    /\ stdout.val = tokens[1][1].value - tokens[1][3].value - tokens[1][5].value

---------------------------------------------------------------------------
(* C3 *)

\* evaluate reaches a `/` whose right operand has the value zero
RECURSIVE DividesByZero(_, _)
DividesByZero(oc, t) ==
    /\ t.node = "BinaryOp"
    /\ \/ DividesByZero(oc, t.left)
       \/ /\ evaluate(oc, t.left).kind = "Ok"
          /\ \/ DividesByZero(oc, t.right)
             \/ /\ evaluate(oc, t.right).kind = "Ok"
                /\ t.op = "/"
                /\ evaluate(oc, t.right).val = 0

\* C3: when evaluate applies `/` to a right operand of value zero, the
\* outcome is an error reported through the error path (err> line, exit),
\* never an uncontrolled crash.
C3_DivisionByZeroReported ==
    (pc \in Terminal /\ ast # NoAST /\ DividesByZero(overflowChecks, ast))
        => pc = "exit" /\ stdout.kind = "err"

---------------------------------------------------------------------------
(* C4 *)

Allowed == Digits \cup {"+", "-", "*", "/", "(", ")", " "}
Disallowed(line) == {i \in 1..Len(line) : line[i] \notin Allowed}

\* the part of the line lex scans: up to the leftmost disallowed character
Scanned(line) ==
    IF Disallowed(line) = {} THEN line ELSE SubSeq(line, 1, Min(Disallowed(line)) - 1)

\* every maximal digit run has a value of at most I32Max
RunsFit(s) ==
    \A i \in 1..Len(s), j \in 1..Len(s) :
        ( /\ i <= j
          /\ \A k \in i..j : s[k] \in Digits
          /\ (i = 1 \/ s[i - 1] \notin Digits)
          /\ (j = Len(s) \/ s[j + 1] \notin Digits) )
            => LiteralValue(SubSeq(s, i, j)) >= 0

LexVerdict ==
    IF Disallowed(expr) # {}
    THEN /\ lexResult[1] = "Err"
         /\ lexMsg[1] = expr[Min(Disallowed(expr))]
         /\ chars[1] = Min(Disallowed(expr)) - 1
         /\ tokens[1] = <<>>
         /\ pc \in {"lex", "exit"}
         /\ next = 1 /\ output_stack = <<>> /\ operator_stack = <<>> /\ ast = NoAST
    ELSE lexResult[1] = "Ok"

\* C4 as stated: for every line, once lex has ended: a line with a
\* disallowed character gave a LexError naming the leftmost one, no tokens,
\* and no parsing or evaluation; a line of allowed characters gave Ok.
C4_EveryLine == lexResult[1] # "running" => LexVerdict

\* C4, amended: the same for every line in which no digit run left of the
\* leftmost disallowed character exceeds I32Max, and for every line in a
\* build without overflow checks.
C4_LexVerdict ==
    (lexResult[1] # "running" /\ (~overflowChecks \/ RunsFit(Scanned(expr))))
        => LexVerdict

\* a LexError for the leftmost of two different disallowed characters, after
\* a token was lexed, was reported and the process exited
C4_Witness ==
    /\ pc = "exit" /\ lexResult[1] = "Err"
    /\ chars[1] > 0
    /\ \E i \in Disallowed(expr) : expr[i] # lexMsg[1]
    /\ stdout = ErrLine(<<"unknown character: ", expr[Min(Disallowed(expr))]>>)

---------------------------------------------------------------------------
(* C5 *)

Depth(toks, upto) ==
    Cardinality({j \in 1..upto : toks[j].type = "LeftParen"})
        - Cardinality({j \in 1..upto : toks[j].type = "RightParen"})

Unbalanced(toks) ==
    \/ \E i \in 1..Len(toks) : Depth(toks, i) < 0
    \/ Depth(toks, Len(toks)) # 0

\* C5: for every token sequence with unbalanced parentheses parse yields a
\* ParseError: no AST is returned and the failure is reported, not a panic.
C5_UnbalancedIsParseError ==
    (Parsed /\ Unbalanced(tokens[1])) => ParseErrorReported

---------------------------------------------------------------------------
(* C6 *)

DigitsOnly(line) == line # <<>> /\ \A i \in 1..Len(line) : line[i] \in Digits

\* a digit run without its leading zeros
RECURSIVE Canon(_)
Canon(ds) == IF Len(ds) > 1 /\ Head(ds) = "0" THEN Canon(Tail(ds)) ELSE ds

\* C6 as stated: for every digit-only line, lex gives the one token
\* Number(v), v the decimal value of the line, and the pipeline prints v.
C6_EveryDigitLine ==
    (pc \in Terminal /\ DigitsOnly(expr))
        => /\ pc = "done"
           /\ tokens[1] = <<Number(stdout.val)>>
           /\ stdout.val >= 0
           /\ Decimal(stdout.val) = Canon(expr)

\* C6, amended: for every digit-only line whose decimal value is at most
\* I32Max, lex gives the one token Number(v) and the pipeline prints v.
C6_DigitLineInRange ==
    (pc \in Terminal /\ DigitsOnly(expr) /\ LiteralValue(expr) >= 0)
        => /\ pc = "done"
           /\ tokens[1] = <<Number(LiteralValue(expr))>>
           /\ stdout = OutLine(LiteralValue(expr))
           /\ Decimal(stdout.val) = Canon(expr)

\* the ten digits of the largest i32 went through the pipeline
C6_Witness ==
    /\ pc = "done" /\ DigitsOnly(expr)
    /\ expr = Decimal(I32Max) /\ tokens[1] = <<Number(I32Max)>> /\ stdout = OutLine(I32Max)

---------------------------------------------------------------------------
(* C7 *)

\* C7: for a well-formed line with k Operator tokens, parse returns a tree
\* with k BinaryOp nodes and k + 1 Number leaves, whose nodes and leaves
\* read left to right are the operator and number tokens in order.
C7_NodeCount ==
    (Parsed /\ WellFormed(expr))
        => /\ ast # NoAST
           /\ Internal(ast) = Len(SelectSeq(tokens[1], IsOperator))
           /\ Leaves(ast) = Len(SelectSeq(tokens[1], IsOperator)) + 1
           /\ InOrder(ast) = SelectSeq(tokens[1], NotParen)

\* a line with parentheses and two operators was parsed
C7_Witness ==
    /\ Parsed /\ WellFormed(expr)
    /\ Len(SelectSeq(tokens[1], IsParen)) >= 2
    /\ Len(SelectSeq(tokens[1], IsOperator)) = 2
    /\ Internal(ast) = 2 /\ Leaves(ast) = 3

---------------------------------------------------------------------------
(* C8 *)

---------------------------------------------------------------------------
(* C9 *)

\* C9: parse returns an AST only when exactly one entry is left on the
\* operand stack after the operator stack is drained; otherwise it reports
\* a malformed-expression error.
C9_OneEntryOrParseError ==
    Parsed => IF ast # NoAST THEN output_stack = <<>> ELSE ParseErrorReported

---------------------------------------------------------------------------
(* C10 *)

\* C10: while parse has not failed, Operator entries that are neighbours on
\* the operator stack have strictly increasing precedence from bottom to
\* top, so no three Operator entries are neighbours, and no RightParen is
\* on the stack.
C10_OperatorStackOrdered ==
    pc # "panic" =>
        /\ \A i \in 1..(Len(operator_stack) - 1) :
              (IsOperator(operator_stack[i]) /\ IsOperator(operator_stack[i + 1]))
                  => precedence(operator_stack[i].op) < precedence(operator_stack[i + 1].op)
        /\ \A i \in 1..(Len(operator_stack) - 2) :
              ~(/\ IsOperator(operator_stack[i])
                /\ IsOperator(operator_stack[i + 1])
                /\ IsOperator(operator_stack[i + 2]))
        /\ \A i \in 1..Len(operator_stack) : operator_stack[i].type # "RightParen"

\* inside a parenthesis a `*` or `/` sits on top of a `+` or `-`
C10_Witness ==
    /\ pc = "parse"
    /\ Len(operator_stack) >= 3
    /\ operator_stack[Len(operator_stack) - 2].type = "LeftParen"
    /\ IsOperator(operator_stack[Len(operator_stack) - 1])
    /\ IsOperator(operator_stack[Len(operator_stack)])

=============================================================================
